---- MODULE Spec2Model ----
(***************************************************************************)
(* Alien invasion game simulation (game2.py): the Board grid, the Aliens   *)
(* with their stored position fields, the Player with its consecutive-hit  *)
(* counter and radius bomb, and the turn loop of the main program.         *)
(***************************************************************************)
EXTENDS Integers, Sequences, FiniteSets, TLC

\* ---------------------------------------------------------------- bounds
\* Side of the (square) board explored by the model.
BoardSize == 3
\* Number of Alien objects that may be constructed in one run.
MaxAliens == 3
\* Number of turns of the main loop that are explored.
MaxTurn == 6
\* Number of random draws, in one run, that make an alien travel by a non-zero
\* offset, spawn or grow; once they are used up every further draw leaves it
\* as it is.
MaxDraws == 1
\* The same four limits for the runs that explore the lineage trees: no alien
\* travels or grows, so that four aliens and two spawns fit.
LineageAliens == 4
LineageTurns == 4
LineageDraws == 2
\* The same limits for the short runs that explore several moves of the aliens.
WalkAliens == 3
WalkTurns == 3
WalkDraws == 3
\* The limits for the long runs in which no alien travels, spawns or grows.
SiegeAliens == 5
SiegeTurns == 9

\* ------------------------------------------------------------- constants
HEIGHT == BoardSize
WIDTH == BoardSize
STRENGTH == 9
\* strength of the alien placed on turn 0 (s = 5)
FIRST_STRENGTH == 5
\* consecutive hits that trigger the radius bomb
BOMB_HITS == 5
\* the nuke is only considered when player.turn > NUKE_TURNS
NUKE_TURNS == 5

Min(a, b) == IF a < b THEN a ELSE b
Max(a, b) == IF a > b THEN a ELSE b

None == 0
NoCoords == <<-1, -1>>

Cells == (0 .. WIDTH - 1) \X (0 .. HEIGHT - 1)
Ids == 1 .. Max(Max(MaxAliens, SiegeAliens), Max(LineageAliens, WalkAliens))

\* the random draws that may make an alien travel, spawn or grow
DrawKinds == {"travel", "spawn", "grow"}

\* cells and strengths the main loop draws for a new alien
SpawnCells == {<<0, 0>>, <<0, 1>>}
SpawnStrengths == {STRENGTH}
\* coordinates typed by the user: cells of the board and one outside it
AttackCoords == {<<0, 0>>, <<0, 1>>, <<1, 1>>, <<WIDTH, HEIGHT>>}

VARIABLES
    al,        \* al[a]: the fields of Alien object a
    n,         \* number of Alien objects constructed so far
    board,     \* board[c]: the Alien stored in cell c, or None
    player,    \* the fields of the Player
    aliens,    \* the main program's list of root aliens
    pc,        \* position of the main program
    cursor,    \* scan position of Board.doTimestep
    cur,       \* the alien whose doTimestep is running
    atk,       \* coordinates passed to Board.squish, kept as long as score
    score,     \* value returned by Board.squish, until the main loop has used it
    bombAt,    \* epicenter of the bomb that squish triggered, kept as long as score
    streak,    \* number of damaging attacks in a row, counting every attack
    draws,     \* random draws so far that made an alien travel, spawn or grow
    lim        \* the limits of the run: aliens, turns, draws, kinds of draws, cells

vars == <<al, n, board, player, aliens, pc, cursor, cur, atk, score, bombAt, streak, draws, lim>>

\* ------------------------------------------------------------------ Alien
\* Alien.inRange
inRange(c) == 0 <= c[1] /\ c[1] < WIDTH /\ 0 <= c[2] /\ c[2] < HEIGHT

\* Board.getAlien
getAlien(bd, c) == bd[c]

\* Board.isEmpty(coords)
isEmpty(bd, c) == getAlien(bd, c) = None

\* Board.isEmpty() for the whole board
isEmptyBoard(bd) == \A c \in Cells : getAlien(bd, c) = None

\* Board.clearCell
clearCell(bd, c) == [bd EXCEPT ![c] = None]

\* Board.addAlien
addAlien(bd, a, c) == [bd EXCEPT ![c] = a]

\* fields of an Alien object that has not been constructed yet
NoAlien == [coords |-> NoCoords, x |-> -1, y |-> -1, strength |-> 0,
            squished |-> FALSE, children |-> <<>>]

\* Alien.__init__
newAlien(st, a, c, s) ==
    [al |-> [st.al EXCEPT ![a] = [coords |-> c, x |-> c[1], y |-> c[2], strength |-> s,
                                  squished |-> FALSE, children |-> <<>>]],
     bd |-> addAlien(st.bd, a, c)]

\* Alien.doDeath
doDeath(st, a) ==
    [al |-> [st.al EXCEPT ![a].squished = TRUE],
     bd |-> clearCell(st.bd, st.al[a].coords)]

\* doPop with the death test off by one (strength < 0)
doPop_lateDeath(st, a, s) ==
    LET st1 == [st EXCEPT !.al[a].strength = @ - s]
    IN  IF st1.al[a].strength < 0 THEN doDeath(st1, a) ELSE st1

\* Alien.doPop
doPop(st, a, s) ==
    LET st1 == [st EXCEPT !.al[a].strength = @ - s]
    IN  IF st1.al[a].strength < 1 THEN doDeath(st1, a) ELSE st1

\* Alien.doGrow
doGrow(st, a, chance) ==
    IF st.al[a].strength < STRENGTH /\ chance
    THEN [st EXCEPT !.al[a].strength = @ + 1]
    ELSE st

\* variant of the move that leaves the x and y of the alien as they were
moveAlien_keepXY(st, oldCoords, newCoords) ==
    IF ~isEmpty(st.bd, oldCoords) /\ isEmpty(st.bd, newCoords)
    THEN [st EXCEPT !.bd = [clearCell(st.bd, oldCoords) EXCEPT
                               ![newCoords] = getAlien(st.bd, oldCoords)]]
    ELSE st

\* Board.moveAlien
moveAlien(st, oldCoords, newCoords) ==
    IF ~isEmpty(st.bd, oldCoords) /\ isEmpty(st.bd, newCoords)
    THEN LET alien == getAlien(st.bd, oldCoords)
         IN  [al |-> [st.al EXCEPT ![alien].x = newCoords[1], ![alien].y = newCoords[2]],
              bd |-> [clearCell(st.bd, oldCoords) EXCEPT ![newCoords] = alien]]
    ELSE st

\* Alien.doTravel
doTravel(st, a, distx, disty) ==
    LET new == <<st.al[a].x + distx, st.al[a].y + disty>>
    IN  IF inRange(new)
        THEN [moveAlien(st, st.al[a].coords, new) EXCEPT !.al[a].coords = new]
        ELSE st

\* the eight cells around (x, y)
adjacent(x, y) ==
    {<<x + dx, y + dy>> : dx \in -1 .. 1, dy \in -1 .. 1} \ {<<x, y>>}

\* Alien.findEmptySpace: the cells it may return (empty set: returns None)
findEmptySpace(st, a) ==
    {c \in adjacent(st.al[a].x, st.al[a].y) : inRange(c) /\ isEmpty(st.bd, c)}

\* Alien.getNeighbor: the aliens it may return (empty set: returns None)
getNeighbor(st, a) ==
    {getAlien(st.bd, c) : c \in {d \in adjacent(st.al[a].x, st.al[a].y) :
                                    inRange(d) /\ getAlien(st.bd, d) # None}}

\* Alien.doSpawn, when chance > 6 and both searches succeeded
doSpawn(st, a, child, emptySpace) ==
    LET st1 == newAlien(st, child, emptySpace, Max(1, st.al[a].strength - 1))
    IN  [st1 EXCEPT !.al[a].children = Append(@, child)]

\* ----------------------------------------------------------------- Player
\* the k-th offset of bomb_range x bomb_range
bombCell(epicenter, k) == <<epicenter[1] + (k \div 3) - 1, epicenter[2] + (k % 3) - 1>>

RECURSIVE bombFrom(_, _, _)
\* the loop of Player.trigger_bomb over affected_cells, from offset k on
bombFrom(st, epicenter, k) ==
    IF k > 8 THEN st
    ELSE LET c == bombCell(epicenter, k)
             st1 == IF inRange(c) /\ getAlien(st.bd, c) # None
                    THEN doDeath(st, getAlien(st.bd, c))
                    ELSE st
         IN  bombFrom(st1, epicenter, k + 1)

\* Player.trigger_bomb
trigger_bomb(st, epicenter) == bombFrom(st, epicenter, 0)

\* the k-th cell of the scan "for i in range(width): for j in range(height)"
cellAt(k) == <<k \div HEIGHT, k % HEIGHT>>
NumCells == WIDTH * HEIGHT

RECURSIVE nukeFrom(_, _)
\* the loop of nuke_board from cell k on
nukeFrom(st, k) ==
    IF k >= NumCells THEN st
    ELSE LET c == cellAt(k)
             st1 == IF getAlien(st.bd, c) # None
                    THEN doDeath(st, getAlien(st.bd, c))
                    ELSE st
         IN  nukeFrom(st1, k + 1)

\* nuke_board
nuke_board(st) == nukeFrom(st, 0)

\* ------------------------------------------------------------------ Board
\* squish that also resets consecutive_hits when the attack fails
squish_missResets(st, hits, coords, strength) ==
    IF ~inRange(coords) \/ isEmpty(st.bd, coords)
    THEN [st |-> st, hits |-> 0, score |-> -1, bomb |-> NoCoords]
    ELSE LET alien == getAlien(st.bd, coords)
             sc == Min(strength, st.al[alien].strength)
             st1 == doPop(st, alien, strength)
         IN  IF sc > 0
             THEN IF hits + 1 >= BOMB_HITS
                  THEN [st |-> trigger_bomb(st1, coords), hits |-> 0,
                        score |-> sc, bomb |-> coords]
                  ELSE [st |-> st1, hits |-> hits + 1, score |-> sc, bomb |-> NoCoords]
             ELSE [st |-> st1, hits |-> 0, score |-> sc, bomb |-> NoCoords]

\* squish that returns the attack strength without capping it
squish_uncapped(st, hits, coords, strength) ==
    IF ~inRange(coords) \/ isEmpty(st.bd, coords)
    THEN [st |-> st, hits |-> hits, score |-> -1, bomb |-> NoCoords]
    ELSE LET alien == getAlien(st.bd, coords)
             sc == strength
             st1 == doPop(st, alien, strength)
         IN  IF sc > 0
             THEN IF hits + 1 >= BOMB_HITS
                  THEN [st |-> trigger_bomb(st1, coords), hits |-> 0,
                        score |-> sc, bomb |-> coords]
                  ELSE [st |-> st1, hits |-> hits + 1, score |-> sc, bomb |-> NoCoords]
             ELSE [st |-> st1, hits |-> 0, score |-> sc, bomb |-> NoCoords]

\* squish that triggers the bomb one hit late (consecutive_hits > 5)
squish_lateBomb(st, hits, coords, strength) ==
    IF ~inRange(coords) \/ isEmpty(st.bd, coords)
    THEN [st |-> st, hits |-> hits, score |-> -1, bomb |-> NoCoords]
    ELSE LET alien == getAlien(st.bd, coords)
             sc == Min(strength, st.al[alien].strength)
             st1 == doPop(st, alien, strength)
         IN  IF sc > 0
             THEN IF hits + 1 > BOMB_HITS
                  THEN [st |-> trigger_bomb(st1, coords), hits |-> 0,
                        score |-> sc, bomb |-> coords]
                  ELSE [st |-> st1, hits |-> hits + 1, score |-> sc, bomb |-> NoCoords]
             ELSE [st |-> st1, hits |-> 0, score |-> sc, bomb |-> NoCoords]

\* Board.squish: the state after the call, the new consecutive_hits, the
\* returned score and the epicenter of the bomb it triggered (or NoCoords)
squish(st, hits, coords, strength) ==
    IF ~(0 <= coords[1] /\ coords[1] < WIDTH /\ 0 <= coords[2] /\ coords[2] < HEIGHT)
    THEN [st |-> st, hits |-> hits, score |-> -1, bomb |-> NoCoords]
    ELSE IF isEmpty(st.bd, coords)
    THEN [st |-> st, hits |-> hits, score |-> -1, bomb |-> NoCoords]
    ELSE LET alien == getAlien(st.bd, coords)
             sc == IF st.al[alien].strength > strength THEN strength
                   ELSE st.al[alien].strength
             st1 == doPop(st, alien, strength)
         IN  IF sc > 0
             THEN IF hits + 1 >= BOMB_HITS
                  THEN [st |-> trigger_bomb(st1, coords), hits |-> 0,
                        score |-> sc, bomb |-> coords]
                  ELSE [st |-> st1, hits |-> hits + 1, score |-> sc, bomb |-> NoCoords]
             ELSE [st |-> st1, hits |-> 0, score |-> sc, bomb |-> NoCoords]

\* --------------------------------------------------------- garbage_collect
\* the tuples pushed for the children of a live alien
pushChildren(a, alien) ==
    [i \in 1 .. Len(a[alien].children) |->
        [alien |-> a[alien].children[i], parent |-> alien, idx |-> i]]

RECURSIVE gcWalk_keepDead(_, _)
\* variant of the walk that leaves a squished alien in its parent's list
gcWalk_keepDead(a, stack) ==
    IF stack = <<>> THEN [al |-> a, ok |-> TRUE]
    ELSE LET top == stack[Len(stack)]
             rest == SubSeq(stack, 1, Len(stack) - 1)
         IN  IF top.alien = None THEN [al |-> a, ok |-> FALSE]
             ELSE IF a[top.alien].squished
             THEN gcWalk_keepDead(a, rest)
             ELSE gcWalk_keepDead(a, rest \o pushChildren(a, top.alien))

RECURSIVE gcWalk(_, _)
\* the "while stack" loop: the aliens' fields afterwards, and ok = FALSE when
\* the popped entry is a None slot (current_alien.squished raises)
gcWalk(a, stack) ==
    IF stack = <<>> THEN [al |-> a, ok |-> TRUE]
    ELSE LET top == stack[Len(stack)]
             rest == SubSeq(stack, 1, Len(stack) - 1)
         IN  IF top.alien = None THEN [al |-> a, ok |-> FALSE]
             ELSE IF a[top.alien].squished
             THEN gcWalk(IF top.parent # None
                         THEN [a EXCEPT ![top.parent].children[top.idx] = None]
                         ELSE a, rest)
             ELSE gcWalk(a, rest \o pushChildren(a, top.alien))

\* a list without its None slots, in the same order
compact(children) == SelectSeq(children, LAMBDA c : c # None)

RECURSIVE gcRoots(_, _, _)
\* the "for root_alien in aliens" loop from the k-th root on
gcRoots(a, roots, k) ==
    IF k > Len(roots) THEN [al |-> a, ok |-> TRUE]
    ELSE IF a[roots[k]].squished THEN gcRoots(a, roots, k + 1)
    ELSE LET w == gcWalk(a, <<[alien |-> roots[k], parent |-> None, idx |-> 0]>>)
         IN  IF ~w.ok THEN w
             ELSE gcRoots([w.al EXCEPT ![roots[k]].children = compact(@)], roots, k + 1)

\* garbage_collect: the aliens' fields afterwards, the list it returns, and
\* ok = FALSE when it raised
garbage_collect(a, roots) ==
    LET r == gcRoots(a, roots, 1)
    IN  [al |-> r.al, ok |-> r.ok,
         aliens |-> SelectSeq(roots, LAMBDA x :
                        (~r.al[x].squished /\ r.al[x].children # <<>>) \/ ~r.al[x].squished)]

\* ------------------------------------------------------------ main program
State == [al |-> al, bd |-> board]

\* the state after the construction of the board and the player, for a run
\* explored within the limits l
InitWith(l) ==
    /\ lim = l
    /\ al = [a \in Ids |-> NoAlien]
    /\ n = 0
    /\ board = [c \in Cells |-> None]
    /\ player = [score |-> 0, strength |-> 1, turn |-> 0, consecutive_hits |-> 0]
    /\ aliens = <<>>
    /\ pc = "top"
    /\ cursor = 0
    /\ cur = None
    /\ atk = NoCoords
    /\ score = 0
    /\ bombAt = NoCoords
    /\ streak = 0
    /\ draws = 0

Init ==
    InitWith([aliens |-> MaxAliens, turns |-> MaxTurn, draws |-> MaxDraws,
              kinds |-> DrawKinds, cells |-> SpawnCells])

\* a random draw of the given kind may still change an alien in this run
mayDraw(kind) == draws < lim.draws /\ kind \in lim.kinds

\* all(not board.isEmpty((x, y)) ...): the board is full
boardFull(bd) == \A c \in Cells : ~isEmpty(bd, c)

RECURSIVE strengthFrom(_, _, _)
\* sum of the strengths of the unsquished aliens in the cells from k on
strengthFrom(a, bd, k) ==
    IF k >= NumCells THEN 0
    ELSE (IF bd[cellAt(k)] # None /\ ~a[bd[cellAt(k)]].squished
          THEN a[bd[cellAt(k)]].strength ELSE 0) + strengthFrom(a, bd, k + 1)

total_alien_strength == strengthFrom(al, board, 0)

\* the winning condition that nukes the board
nukeCondition ==
    player.turn > NUKE_TURNS /\ total_alien_strength < player.strength

\* the top of the main loop up to input(): the game is lost when the board
\* is full, won by the nuke when nukeCondition holds, and otherwise a random
\* alien is placed if the cell drawn for it is empty
TurnStart ==
    /\ pc = "top"
    /\ UNCHANGED lim
    /\ IF boardFull(board)
       THEN /\ pc' = "done"
            /\ UNCHANGED <<al, board, n, aliens>>
       ELSE IF nukeCondition
       THEN /\ LET st1 == nuke_board(State)
               IN  al' = st1.al /\ board' = st1.bd
            /\ pc' = "done"
            /\ UNCHANGED <<n, aliens>>
       ELSE /\ player.turn < lim.turns
            /\ \E c \in lim.cells, s0 \in SpawnStrengths :
                  LET s == IF player.turn = 0 THEN FIRST_STRENGTH ELSE s0
                  IN  IF isEmpty(board, c) /\ n < lim.aliens
                      THEN LET st1 == newAlien(State, n + 1, c, s)
                           IN  /\ al' = st1.al
                               /\ board' = st1.bd
                               /\ n' = n + 1
                               /\ aliens' = Append(aliens, n + 1)
                      ELSE UNCHANGED <<al, board, n, aliens>>
            /\ pc' = "input"
    /\ UNCHANGED <<player, cursor, cur, atk, score, bombAt, streak, draws>>

\* score = board.squish((userx, usery), player.strength)
Squish ==
    /\ pc = "input"
    /\ UNCHANGED lim
    /\ \E c \in AttackCoords :
          LET r == squish(State, player.consecutive_hits, c, player.strength)
          IN  /\ al' = r.st.al
              /\ board' = r.st.bd
              /\ player' = [player EXCEPT !.consecutive_hits = r.hits]
              /\ atk' = c
              /\ score' = r.score
              /\ bombAt' = r.bomb
              /\ streak' = IF r.score > 0 THEN Min(streak + 1, BOMB_HITS) ELSE 0
    /\ pc' = "adjust"
    /\ UNCHANGED <<n, aliens, cursor, cur, draws>>

\* variant of the adjustment without the two limits of the strength
adjust_unclamped(p, sc) ==
    [p EXCEPT !.strength = IF sc > 0 THEN @ + 1 ELSE @ - 1,
              !.score = @ + sc]

\* the player's strength and score after the attack
adjust(p, sc) ==
    [p EXCEPT !.strength = IF sc > 0
                           THEN @ + (IF @ < STRENGTH THEN 1 ELSE 0)
                           ELSE @ - (IF @ > 1 THEN 1 ELSE 0),
              !.score = @ + sc]

Adjust ==
    /\ pc = "adjust"
    /\ UNCHANGED lim
    /\ player' = adjust(player, score)
    /\ atk' = NoCoords
    /\ score' = 0
    /\ bombAt' = NoCoords
    /\ pc' = "scan"
    /\ cursor' = 0
    /\ UNCHANGED <<al, n, board, aliens, cur, streak, draws>>

\* input without coordinates that is neither QUIT, EXIT nor TREES
InvalidInput ==
    /\ pc = "input"
    /\ UNCHANGED lim
    /\ pc' = "scan"
    /\ cursor' = 0
    /\ UNCHANGED <<al, n, board, player, aliens, cur, atk, score, bombAt, streak, draws>>

\* QUIT or EXIT
Quit ==
    /\ pc = "input"
    /\ UNCHANGED lim
    /\ pc' = "done"
    /\ UNCHANGED <<al, n, board, player, aliens, cursor, cur, atk, score, bombAt, streak, draws>>

\* cells at or after k that hold an alien that is not squished
liveFrom(k) ==
    {j \in k .. NumCells - 1 :
        getAlien(board, cellAt(j)) # None /\ ~al[getAlien(board, cellAt(j))].squished}

\* Board.doTimestep: the scan reaches the next alien to step, or ends
BoardDoTimestep ==
    /\ pc = "scan"
    /\ UNCHANGED lim
    /\ IF liveFrom(cursor) # {}
       THEN LET k == CHOOSE j \in liveFrom(cursor) : \A i \in liveFrom(cursor) : j <= i
            IN  /\ cur' = getAlien(board, cellAt(k))
                /\ cursor' = k + 1
                /\ pc' = "travel"
       ELSE /\ cur' = None
            /\ cursor' = 0
            /\ pc' = "playerstep"
    /\ UNCHANGED <<al, n, board, player, aliens, atk, score, bombAt, streak, draws>>

\* self.doTravel() of the alien being stepped
DoTravel ==
    /\ pc = "travel"
    /\ UNCHANGED lim
    /\ \E distx \in -1 .. 1, disty \in -1 .. 1 :
          LET st1 == doTravel(State, cur, distx, disty)
              still == distx = 0 /\ disty = 0
          IN  /\ still \/ mayDraw("travel")
              /\ al' = st1.al
              /\ board' = st1.bd
              /\ draws' = IF still THEN draws ELSE draws + 1
    /\ pc' = "spawn"
    /\ UNCHANGED <<n, player, aliens, cursor, cur, atk, score, bombAt, streak>>

\* self.doSpawn() of the alien being stepped
DoSpawn ==
    /\ pc = "spawn"
    /\ UNCHANGED lim
    /\ \/ /\ getNeighbor(State, cur) # {}
          /\ n < lim.aliens
          /\ mayDraw("spawn")
          /\ \E emptySpace \in findEmptySpace(State, cur) :
                LET st1 == doSpawn(State, cur, n + 1, emptySpace)
                IN  al' = st1.al /\ board' = st1.bd
          /\ n' = n + 1
          /\ draws' = draws + 1
       \/ UNCHANGED <<al, board, n, draws>>
    /\ pc' = "grow"
    /\ UNCHANGED <<player, aliens, cursor, cur, atk, score, bombAt, streak>>

\* self.doGrow() of the alien being stepped
DoGrow ==
    /\ pc = "grow"
    /\ UNCHANGED lim
    /\ \E chance \in BOOLEAN :
          LET st1 == doGrow(State, cur, chance)
          IN  /\ ~chance \/ mayDraw("grow")
              /\ al' = st1.al
              /\ board' = st1.bd
              /\ draws' = IF chance THEN draws + 1 ELSE draws
    /\ pc' = "scan"
    /\ UNCHANGED <<n, player, aliens, cursor, cur, atk, score, bombAt, streak>>

\* Player.doTimestep
PlayerDoTimestep ==
    /\ pc = "playerstep"
    /\ UNCHANGED lim
    /\ player' = [player EXCEPT !.turn = @ + 1]
    /\ pc' = "gc"
    /\ UNCHANGED <<al, n, board, aliens, cursor, cur, atk, score, bombAt, streak, draws>>

\* aliens = garbage_collect(aliens)
GarbageCollect ==
    /\ pc = "gc"
    /\ UNCHANGED lim
    /\ LET r == garbage_collect(al, aliens)
       IN  /\ al' = r.al
           /\ aliens' = IF r.ok THEN r.aliens ELSE aliens
           /\ pc' = IF r.ok THEN "wincheck" ELSE "crashed"
    /\ UNCHANGED <<n, board, player, cursor, cur, atk, score, bombAt, streak, draws>>

\* if board.isEmpty(): "You win!"
WinCheck ==
    /\ pc = "wincheck"
    /\ UNCHANGED lim
    /\ pc' = IF isEmptyBoard(board) THEN "done" ELSE "top"
    /\ UNCHANGED <<al, n, board, player, aliens, cursor, cur, atk, score, bombAt, streak, draws>>

Next ==
    \/ TurnStart
    \/ Squish
    \/ Adjust
    \/ InvalidInput
    \/ Quit
    \/ BoardDoTimestep
    \/ DoTravel
    \/ DoSpawn
    \/ DoGrow
    \/ PlayerDoTimestep
    \/ GarbageCollect
    \/ WinCheck

Spec == Init /\ [][Next]_vars

\* runs in which the aliens only spawn: four aliens, two spawns
InitLineage ==
    InitWith([aliens |-> LineageAliens, turns |-> LineageTurns, draws |-> LineageDraws,
              kinds |-> {"spawn"}, cells |-> SpawnCells])

SpecLineage == InitLineage /\ [][Next]_vars

\* short runs with several moves and spawns of the aliens; none of them grows
InitWalk ==
    InitWith([aliens |-> WalkAliens, turns |-> WalkTurns, draws |-> WalkDraws,
              kinds |-> {"travel", "spawn"}, cells |-> SpawnCells])

SpecWalk == InitWalk /\ [][Next]_vars

\* long runs in which the aliens stay as they are placed, in one corner of the
\* board or in the opposite one, out of the range of a bomb on the first
InitSiege ==
    InitWith([aliens |-> SiegeAliens, turns |-> SiegeTurns, draws |-> 0, kinds |-> {},
              cells |-> {<<0, 0>>, <<WIDTH - 1, HEIGHT - 1>>}])

SpecSiege == InitSiege /\ [][Next]_vars

\* ---------------------------------------------------------------- claims
\* the step that is one call of Board.squish
SquishStep == pc = "input" /\ pc' = "adjust"

\* the Alien objects constructed so far
Created == 1 .. n

\* the 3x3 block around c, clipped to the board
block(c) == {d \in Cells : d[1] - c[1] \in -1 .. 1 /\ d[2] - c[2] \in -1 .. 1}

C2_ScoreIsMin ==
    [][(SquishStep /\ inRange(atk') /\ ~isEmpty(board, atk'))
          => score' = Min(player.strength, al[getAlien(board, atk')].strength)]_vars

\* an attack stronger than its target has returned the target's strength
C2_Witness ==
    /\ pc = "adjust"
    /\ inRange(atk)
    /\ score > 0
    /\ score < player.strength

\* C3, as claimed: no alien, squished or not, has a negative strength.
C3_StrengthNeverNegative == \A a \in Created : al[a].strength >= 0

\* C3, amended: an alien that is not squished has a strength in 1..STRENGTH
\* (the strength of a squished alien may be negative).
C3_LiveStrengthInRange ==
    \A a \in Created : ~al[a].squished => al[a].strength \in 1 .. STRENGTH

\* an attacked alien survived the attack with a strength of at most 2
C3_Witness ==
    /\ pc = "adjust"
    /\ inRange(atk)
    /\ score > 0
    /\ ~isEmpty(board, atk)
    /\ ~al[getAlien(board, atk)].squished
    /\ al[getAlien(board, atk)].strength <= 2

\* C4: no cell of the grid holds a squished alien.
C4_NoSquishedOnBoard ==
    \A c \in Cells : ~isEmpty(board, c) => ~al[getAlien(board, c)].squished

\* C5: every alien that is not squished is held by exactly one cell of the
\* grid, the cell (x, y) of its own fields.
C5_LiveOnItsCell ==
    \A a \in Created : ~al[a].squished =>
        {c \in Cells : getAlien(board, c) = a} = {<<al[a].x, al[a].y>>}

\* C6: once five attacks in a row have dealt damage, the next attack that
\* deals damage triggers the bomb and leaves consecutive_hits at 0.
C6_NextHitAfterFiveBombs ==
    [][(SquishStep /\ streak >= BOMB_HITS /\ score' > 0)
          => (bombAt' # NoCoords /\ player'.consecutive_hits = 0)]_vars

C8_BombOnlyAfterFiveInARow ==
    (pc = "adjust" /\ bombAt # NoCoords) => streak >= BOMB_HITS

\* C9: when the bomb runs, every unsquished alien the grid held in the block
\* around the epicenter is squished afterwards, and every unsquished alien
\* the grid held outside the block is still unsquished and in its cell.
C9_BombKillsBlockOnly ==
    [][(SquishStep /\ bombAt' # NoCoords) =>
          LET pre == doPop(State, getAlien(board, atk'), player.strength)
          IN  \A c \in Cells :
                (~isEmpty(pre.bd, c) /\ ~pre.al[getAlien(pre.bd, c)].squished) =>
                    IF c \in block(atk')
                    THEN al'[getAlien(pre.bd, c)].squished
                    ELSE /\ ~al'[getAlien(pre.bd, c)].squished
                         /\ getAlien(board', c) = getAlien(pre.bd, c)]_vars

\* C10: death of an alien that is already squished changes nothing: for
\* every squished alien that an attack, the bomb or the nuke can still find
\* on the grid, doDeath leaves the grid and all aliens as they are.
C10_DeathIdempotent ==
    \A c \in Cells :
        (~isEmpty(board, c) /\ al[getAlien(board, c)].squished)
            => doDeath(State, getAlien(board, c)) = State

\* the step of the main loop in which the nuke fires
NukeStep == pc = "top" /\ ~boardFull(board) /\ nukeCondition /\ pc' = "done"

\* C11: when the nuke fires, every alien that was not squished before it is
\* squished afterwards and every cell of the grid is empty.
C11_NukeKillsAll ==
    [][NukeStep =>
          /\ \A a \in Created : ~al[a].squished => al'[a].squished
          /\ isEmptyBoard(board')]_vars

\* C12: the garbage collection at the end of a turn always completes: it never
\* raises, whatever spawns, deaths and earlier collections came before.
C12_CollectionNeverFaults == pc # "crashed"

\* the garbage collection step of the main loop, when it completes
CollectStep == pc = "gc" /\ pc' = "wincheck"

\* the aliens that are not squished
Live == {a \in Created : ~al[a].squished}

\* C13: after a garbage collection, the list of children of every alien that
\* is not squished has no None slot and no squished alien.
C13_ChildListsClean ==
    pc = "wincheck" =>
        \A a \in Live : \A i \in 1 .. Len(al[a].children) :
            /\ al[a].children[i] # None
            /\ ~al[al[a].children[i]].squished

\* the aliens in the list of children of x
kids(a, x) == {a[x].children[i] : i \in 1 .. Len(a[x].children)} \ {None}

RECURSIVE reach(_, _, _)
\* the aliens reached from the set todo through the lists of children; with
\* liveOnly, squished aliens are neither counted nor passed through
reach(a, todo, liveOnly) ==
    LET keep(S) == IF liveOnly THEN {x \in S : ~a[x].squished} ELSE S
        seen == keep(todo)
        next == keep(UNION {kids(a, x) : x \in seen})
    IN  IF next \subseteq seen THEN seen
        ELSE reach(a, seen \cup next, liveOnly)

\* the aliens reached from the roots of a list
roots(list) == {list[i] : i \in 1 .. Len(list)}
AnyTree(a, list) == reach(a, roots(list), FALSE)
LiveTree(a, list) == reach(a, roots(list), TRUE)

\* C14: a collection that completes removes a squished alien without children
\* from the list of its live parent, and a live alien that the roots only
\* reached through a squished alien is not reached from the returned roots.
C14_DeadPruned ==
    [][CollectStep =>
          /\ \A p \in LiveTree(al, aliens) : \A c \in kids(al, p) :
                al[c].squished /\ al[c].children = <<>> => c \notin kids(al', p)
          /\ \A e \in AnyTree(al, aliens) \ LiveTree(al, aliens) :
                ~al[e].squished => e \notin AnyTree(al', aliens')]_vars

\* a collection has cut off a squished alien that was spawned, not placed by
\* the main loop (no alien travels in these runs), and its live child
C14_Witness ==
    /\ pc = "wincheck"
    /\ \E d \in Created, e \in Live :
          /\ al[d].squished
          /\ <<al[d].x, al[d].y>> \notin SpawnCells
          /\ e \in kids(al, d)
          /\ {d, e} \cap AnyTree(al, aliens) = {}

\* the step of the main loop that adjusts the player after an attack
AdjustStep == pc = "adjust" /\ pc' = "scan"

\* C15: the player's strength is in 1 .. STRENGTH after every turn; an attack
\* with a positive score raises it by one unless it is STRENGTH, any other
\* attack lowers it by one unless it is 1, and the score is added to the
\* player's score whatever its sign.
C15_StrengthAdjusted ==
    [][/\ player'.strength \in 1 .. STRENGTH
       /\ AdjustStep =>
            /\ player'.strength =
                  IF score > 0 THEN Min(player.strength + 1, STRENGTH)
                  ELSE Max(player.strength - 1, 1)
            /\ player'.score = player.score + score]_vars

\* the player has just attacked with a positive score at full strength
C15_Witness ==
    pc = "scan" /\ cursor = 0 /\ player.strength = STRENGTH /\ streak > 0

\* the travel step of the alien being stepped
TravelStep == pc = "travel" /\ pc' = "spawn"

\* the travel step is the one in which doTravel drew the offset (distx, disty)
TravelDrew(distx, disty) ==
    /\ TravelStep
    /\ al' = doTravel(State, cur, distx, disty).al
    /\ board' = doTravel(State, cur, distx, disty).bd
    /\ draws' = IF distx = 0 /\ disty = 0 THEN draws ELSE draws + 1

\* C16: when the destination drawn by doTravel is on the board and occupied,
\* the grid does not change and the alien's x, y and coords are all still the
\* cell it occupies.
C16_BlockedTravelChangesNothing ==
    [][\A distx \in -1 .. 1, disty \in -1 .. 1 :
          LET here == <<al[cur].x, al[cur].y>>
              new == <<al[cur].x + distx, al[cur].y + disty>>
          IN  TravelDrew(distx, disty) /\ inRange(new) /\ ~isEmpty(board, new) =>
                /\ board' = board
                /\ getAlien(board', here) = cur
                /\ <<al'[cur].x, al'[cur].y>> = here
                /\ al'[cur].coords = here]_vars

\* the spawn step of the alien being stepped, when it creates a child
SpawnStep == pc = "spawn" /\ pc' = "grow" /\ n' = n + 1

\* C17: doSpawn creates a child only when a cell around the parent is empty
\* and an alien around it is not squished; the child is created on a cell that
\* was empty, with strength max(1, parent's strength - 1), and is appended to
\* the parent's children.
C17_SpawnNeedsLiveNeighbor ==
    [][SpawnStep =>
          LET child == n + 1
              cell == <<al'[child].x, al'[child].y>>
          IN  /\ \E nb \in getNeighbor(State, cur) : ~al[nb].squished
              /\ cell \in adjacent(al[cur].x, al[cur].y)
              /\ inRange(cell) /\ isEmpty(board, cell)
              /\ getAlien(board', cell) = child
              /\ al'[child].strength = Max(1, al[cur].strength - 1)
              /\ al'[cur].children = Append(al[cur].children, child)]_vars

\* a step of the alien being stepped: its travel, its spawn or its growth
AlienStep == pc \in {"travel", "spawn", "grow"} /\ pc' \in {"spawn", "grow", "scan"}

\* the cells that reference alien a
cellsOf(bd, a) == {c \in Cells : bd[c] = a}

\* C18: a step of one alien never moves or removes another alien: every other
\* alien created before is in the same cells and has the same x and y after
\* the step.
C18_StepLeavesOthers ==
    [][AlienStep =>
          \A b \in Created \ {cur} :
              /\ cellsOf(board', b) = cellsOf(board, b)
              /\ al'[b].x = al[b].x
              /\ al'[b].y = al[b].y]_vars

\* C19: the alien referenced by cell (i, j) of the grid has x = i and y = j,
\* and no alien is referenced by two cells.
C19_GridMatchesXY ==
    /\ \A c \in Cells : board[c] # None => <<al[board[c]].x, al[board[c]].y>> = c
    /\ \A c1, c2 \in Cells : board[c1] # None /\ board[c1] = board[c2] => c1 = c2

\* a squished alien is still in the grid, in a cell that is not its coords,
\* and a live alien created since is in another cell
C19_Witness ==
    \E c1, c2 \in Cells :
        /\ board[c1] # None /\ al[board[c1]].squished /\ al[board[c1]].coords # c1
        /\ board[c2] # None /\ ~al[board[c2]].squished

\* C20: the score returned by an attack is -1 or in 1 .. STRENGTH, and an
\* attack on an occupied cell never returns a score of 0 or less.
C20_ScoreRange ==
    [][SquishStep =>
          /\ score' = -1 \/ score' \in 1 .. STRENGTH
          /\ inRange(atk') /\ ~isEmpty(board, atk') => score' > 0]_vars
====
